---------------------------- MODULE Spec2Model ----------------------------
(***************************************************************************)
(* A model of src/API/gerrit_api.py: the Gerrit REST client.               *)
(*                                                                         *)
(* Text (a Python str, or the bytes of a response body) is a sequence of   *)
(* chunks; a chunk is a TLA+ string holding one character (")", "[", "1")  *)
(* or one run of letters that no operation of the program splits            *)
(* ("owner", "_more_", "hours").  Python values are records tagged by      *)
(* their type in the field kind.                                           *)
(***************************************************************************)
EXTENDS Integers, Sequences, FiniteSets, TLC

(***************************************************************************)
(* Python values                                                           *)
(***************************************************************************)
PyNone == [kind |-> "None"]
PyStr(cs) == [kind |-> "str", chars |-> cs]
PyBytes(bs) == [kind |-> "bytes", bytes |-> bs]
PyInt(n) == [kind |-> "int", n |-> n]
PyBool(b) == [kind |-> "bool", b |-> b]
PyList(xs) == [kind |-> "list", items |-> xs]
PyDict(ks, vs) == [kind |-> "dict", keys |-> ks, vals |-> vs]

\* d.get(k) of a dict: the value stored under k, None when k is absent.
DictHas(d, k) == \E i \in 1..Len(d.keys) : d.keys[i] = k

DictGet(d, k) ==
    IF DictHas(d, k)
    THEN d.vals[CHOOSE i \in 1..Len(d.keys) : d.keys[i] = k]
    ELSE PyNone

\* d[k] = v: a new key goes last, an old key keeps its place.
DictSet(d, k, v) ==
    IF DictHas(d, k)
    THEN PyDict(d.keys, [i \in 1..Len(d.vals) |-> IF d.keys[i] = k THEN v ELSE d.vals[i]])
    ELSE PyDict(Append(d.keys, k), Append(d.vals, v))

\* bool(v), as "if v:" evaluates it.
Truthy(v) ==
    CASE v.kind = "None" -> FALSE
      [] v.kind = "str" -> v.chars /= <<>>
      [] v.kind = "bytes" -> v.bytes /= <<>>
      [] v.kind = "int" -> v.n /= 0
      [] v.kind = "bool" -> v.b
      [] v.kind = "list" -> v.items /= <<>>
      [] v.kind = "dict" -> v.keys /= <<>>
      [] OTHER -> TRUE

(***************************************************************************)
(* json.loads on chunked text: objects, arrays, strings, non-negative      *)
(* integers, true, false, null, with "\n" as the only whitespace.          *)
(***************************************************************************)
Digits == {"0", "1", "2", "3", "4", "5", "6", "7", "8", "9"}

DigitVal(c) ==
    CASE c = "0" -> 0 [] c = "1" -> 1 [] c = "2" -> 2 [] c = "3" -> 3
      [] c = "4" -> 4 [] c = "5" -> 5 [] c = "6" -> 6 [] c = "7" -> 7
      [] c = "8" -> 8 [] c = "9" -> 9

JsonFail == [ok |-> FALSE, val |-> PyNone, next |-> 0]
JsonOk(v, i) == [ok |-> TRUE, val |-> v, next |-> i]

RECURSIVE SkipWs(_, _)
SkipWs(s, i) == IF i <= Len(s) /\ s[i] = "\n" THEN SkipWs(s, i + 1) ELSE i

\* The end of the run of digits that starts at i.
RECURSIVE DigitsEnd(_, _)
DigitsEnd(s, i) == IF i <= Len(s) /\ s[i] \in Digits THEN DigitsEnd(s, i + 1) ELSE i

RECURSIVE DecimalValue(_, _, _)
DecimalValue(s, i, j) ==
    IF j <= i THEN 0 ELSE DecimalValue(s, i, j - 1) * 10 + DigitVal(s[j - 1])

\* The closing quote of a string whose opening quote is at i - 1; 0 if none
\* comes before the end or before a raw line break.
RECURSIVE StringEnd(_, _)
StringEnd(s, i) ==
    IF i > Len(s) \/ s[i] = "\n" THEN 0
    ELSE IF s[i] = "\"" THEN i
    ELSE StringEnd(s, i + 1)

RECURSIVE ParseValue(_, _)
RECURSIVE ParseElements(_, _, _)
RECURSIVE ParseMembers(_, _, _)

ParseString(s, i) ==
    IF i > Len(s) \/ s[i] /= "\"" THEN JsonFail
    ELSE LET e == StringEnd(s, i + 1)
         IN  IF e = 0 THEN JsonFail
             ELSE JsonOk(PyStr(SubSeq(s, i + 1, e - 1)), e + 1)

\* The elements after "[" or after a ",": acc holds those parsed so far.
ParseElements(s, i, acc) ==
    LET r == ParseValue(s, i)
    IN  IF ~r.ok THEN JsonFail
        ELSE LET j == SkipWs(s, r.next)
                 xs == Append(acc, r.val)
             IN  IF j > Len(s) THEN JsonFail
                 ELSE IF s[j] = "]" THEN JsonOk(PyList(xs), j + 1)
                 ELSE IF s[j] = "," THEN ParseElements(s, j + 1, xs)
                 ELSE JsonFail

\* The members after "{" or after a ",": acc is the dict built so far.
ParseMembers(s, i, acc) ==
    LET k == ParseString(s, SkipWs(s, i))
    IN  IF ~k.ok THEN JsonFail
        ELSE LET c == SkipWs(s, k.next)
             IN  IF c > Len(s) \/ s[c] /= ":" THEN JsonFail
                 ELSE LET r == ParseValue(s, c + 1)
                      IN  IF ~r.ok THEN JsonFail
                          ELSE LET j == SkipWs(s, r.next)
                                   d == DictSet(acc, k.val.chars, r.val)
                               IN  IF j > Len(s) THEN JsonFail
                                   ELSE IF s[j] = "}" THEN JsonOk(d, j + 1)
                                   ELSE IF s[j] = "," THEN ParseMembers(s, j + 1, d)
                                   ELSE JsonFail

ParseValue(s, i0) ==
    LET i == SkipWs(s, i0)
    IN  IF i > Len(s) THEN JsonFail
        ELSE IF s[i] = "[" THEN
            LET j == SkipWs(s, i + 1)
            IN  IF j <= Len(s) /\ s[j] = "]" THEN JsonOk(PyList(<<>>), j + 1)
                ELSE ParseElements(s, j, <<>>)
        ELSE IF s[i] = "{" THEN
            LET j == SkipWs(s, i + 1)
            IN  IF j <= Len(s) /\ s[j] = "}" THEN JsonOk(PyDict(<<>>, <<>>), j + 1)
                ELSE ParseMembers(s, j, PyDict(<<>>, <<>>))
        ELSE IF s[i] = "\"" THEN ParseString(s, i)
        ELSE IF s[i] = "0" THEN JsonOk(PyInt(0), i + 1)
        ELSE IF s[i] \in Digits THEN
            LET e == DigitsEnd(s, i)
            IN  JsonOk(PyInt(DecimalValue(s, i, e)), e)
        ELSE IF s[i] = "true" THEN JsonOk(PyBool(TRUE), i + 1)
        ELSE IF s[i] = "false" THEN JsonOk(PyBool(FALSE), i + 1)
        ELSE IF s[i] = "null" THEN JsonOk(PyNone, i + 1)
        ELSE JsonFail

\* json.loads(s): ok is FALSE where Python raises JSONDecodeError.
json_loads(s) ==
    LET r == ParseValue(s, 1)
    IN  IF r.ok /\ SkipWs(s, r.next) = Len(s) + 1 THEN r ELSE JsonFail


(***************************************************************************)
(* RestEngine.rest_request                                                 *)
(***************************************************************************)
\* What the server and the network do with one request: session.request
\* raises exc (a class of requests.exceptions, or TypeError), or, with exc
\* empty, answers with a status code and a body.
Wire(exc, status, content) == [exc |-> exc, status |-> status, content |-> content]

\* The classes an exception of class e is an instance of.
Ancestors(e) ==
    CASE e = "InvalidURL" -> {"InvalidURL", "RequestException", "ValueError"}
      [] e = "MissingSchema" -> {"MissingSchema", "RequestException", "ValueError"}
      [] e = "InvalidHeader" -> {"InvalidHeader", "RequestException", "ValueError"}
      [] e = "SSLError" -> {"SSLError", "ConnectionError", "RequestException"}
      [] e = "ConnectionError" -> {"ConnectionError", "RequestException"}
      [] e = "ConnectTimeout" -> {"ConnectTimeout", "ConnectionError", "Timeout", "RequestException"}
      [] e = "ReadTimeout" -> {"ReadTimeout", "Timeout", "RequestException"}
      [] e = "TooManyRedirects" -> {"TooManyRedirects", "RequestException"}
      [] e = "HTTPError" -> {"HTTPError", "RequestException"}
      [] e = "ChunkedEncodingError" -> {"ChunkedEncodingError", "RequestException"}
      [] OTHER -> {e}

\* The except clauses of rest_request, in the order written.
Handlers ==
    << "InvalidURL", "HTTPError", "SSLError", "ConnectionError", "InvalidHeader",
       "TooManyRedirects", "Timeout", "RequestException", "TypeError" >>

\* The first except clause that catches e, 0 when none does.
HandlerOf(e) ==
    IF \E i \in 1..Len(Handlers) : Handlers[i] \in Ancestors(e)
    THEN CHOOSE i \in 1..Len(Handlers) :
            /\ Handlers[i] \in Ancestors(e)
            /\ \A j \in 1..(i - 1) : Handlers[j] \notin Ancestors(e)
    ELSE 0

\* What the body of except clause h raises while it logs, "" when nothing.
\* session.request raised, so rest_response was never bound and
\* response_code is still None: the InvalidHeader clause reads
\* rest_response.request.headers, the HTTPError clause indexes
\* status_codes._codes with None.
HandlerRaises(h) ==
    CASE h = "InvalidHeader" -> "UnboundLocalError"
      [] h = "HTTPError" -> "KeyError"
      [] OTHER -> ""

ResponseHeaders == [kind |-> "headers"]

RestResult(raised, code, response, headers) ==
    [raised |-> raised, code |-> code, response |-> response, headers |-> headers]

\* rest_request(uri) when the request meets w: the tuple returned, or the
\* exception that leaves the method.
rest_request(w) ==
    IF w.exc /= "" THEN
        LET h == HandlerOf(w.exc)
        IN  IF h = 0 THEN RestResult(w.exc, PyNone, PyNone, PyNone)
            ELSE RestResult(HandlerRaises(Handlers[h]), PyNone, PyNone, PyNone)
    ELSE IF w.content = <<>> THEN
        RestResult("", PyInt(w.status), PyBytes(<<>>), ResponseHeaders)
    ELSE
        LET j == json_loads(w.content)
        IN  RestResult("", PyInt(w.status),
                       IF j.ok THEN j.val ELSE PyStr(w.content),
                       ResponseHeaders)

(***************************************************************************)
(* GerritApi.decode_response                                               *)
(***************************************************************************)
gerrit_magic_json_prefix == << ")", "]", "}", "'", "\n" >>

\* s.startswith(p)
StartsWith(s, p) == Len(s) >= Len(p) /\ SubSeq(s, 1, Len(p)) = p

\* str(code) == '200'
StatusIs200(code) ==
    \/ code.kind = "int" /\ code.n = 200
    \/ code.kind = "str" /\ code.chars = << "2", "0", "0" >>

decode_response_AnyStatus(response) ==
    IF response.response.kind = "str"
       /\ StartsWith(response.response.chars, gerrit_magic_json_prefix) THEN
        LET output == SubSeq(response.response.chars,
                             Len(gerrit_magic_json_prefix) + 1,
                             Len(response.response.chars))
            j == json_loads(output)
        IN  IF j.ok THEN j.val ELSE PyStr(output)
    ELSE response.response

\* decode_response(response), response the tuple rest_request returned.
decode_response(response) ==
    IF StatusIs200(response.code) /\ response.response.kind = "str" THEN
        IF StartsWith(response.response.chars, gerrit_magic_json_prefix) THEN
            LET output == SubSeq(response.response.chars,
                                 Len(gerrit_magic_json_prefix) + 1,
                                 Len(response.response.chars))
                j == json_loads(output)
            IN  IF j.ok THEN j.val ELSE PyStr(output)
        ELSE response.response
    ELSE response.response

(***************************************************************************)
(* GerritApi.get_start_time.  A duration is text of one character per      *)
(* chunk; an instant is a number of minutes since datetime.min, the        *)
(* earliest instant a datetime holds.                                      *)
(***************************************************************************)
\* c.lower()
LowerChar(c) ==
    CASE c = "A" -> "a" [] c = "D" -> "d" [] c = "E" -> "e" [] c = "H" -> "h"
      [] c = "I" -> "i" [] c = "K" -> "k" [] c = "M" -> "m" [] c = "N" -> "n"
      [] c = "O" -> "o" [] c = "R" -> "r" [] c = "S" -> "s" [] c = "T" -> "t"
      [] c = "U" -> "u" [] c = "W" -> "w" [] c = "Y" -> "y"
      [] OTHER -> c

\* str(duration).lower()
Lower(s) == [i \in 1..Len(s) |-> LowerChar(s[i])]

\* sub in s
Contains(s, sub) ==
    \E i \in 1..(Len(s) - Len(sub) + 1) : SubSeq(s, i, i + Len(sub) - 1) = sub

Range(s) == {s[i] : i \in 1..Len(s)}

\* s.strip(chars): the characters of chars removed from both ends of s.
Strip(s, chars) ==
    LET keep == {i \in 1..Len(s) : s[i] \notin Range(chars)}
    IN  IF keep = {} THEN <<>>
        ELSE LET lo == CHOOSE i \in keep : \A j \in keep : i <= j
                 hi == CHOOSE i \in keep : \A j \in keep : i >= j
             IN  SubSeq(s, lo, hi)

\* int(s) of decimal digits; ok is FALSE where Python raises ValueError.
ParseInt(s) ==
    IF s /= <<>> /\ \A i \in 1..Len(s) : s[i] \in Digits
    THEN [ok |-> TRUE, n |-> DecimalValue(s, 1, Len(s) + 1)]
    ELSE [ok |-> FALSE, n |-> 0]

MinutesPerHour == 60
MinutesPerDay == 1440

kw_minutes == << "m", "i", "n", "u", "t", "e", "s" >>
kw_hours == << "h", "o", "u", "r", "s" >>
kw_days == << "d", "a", "y", "s" >>
kw_months == << "m", "o", "n", "t", "h", "s" >>

\* The outcome of a call: the value returned, or the exception raised.
Returned(v) == [raised |-> "", start |-> v]
Raised(e) == [raised |-> e, start |-> 0]

\* stop - timedelta(minutes=delta): OverflowError when the result is
\* earlier than datetime.min.
SubtractDelta(stop, delta) ==
    IF stop - delta < 0 THEN Raised("OverflowError") ELSE Returned(stop - delta)

DeltaBranch_AsMinutes(d, stop, keyword, minutesPerUnit) ==
    LET n == ParseInt(Strip(d, keyword))
    IN  IF ~n.ok THEN Raised("ValueError")
        ELSE SubtractDelta(stop, n.n)

\* start = stop - timedelta(<unit>=int(d.strip(<keyword>)))
DeltaBranch(d, stop, keyword, minutesPerUnit) ==
    LET n == ParseInt(Strip(d, keyword))
    IN  IF ~n.ok THEN Raised("ValueError")
        ELSE SubtractDelta(stop, n.n * minutesPerUnit)

\* timedelta takes no months: the call raises TypeError once int() is done.
MonthsBranch(d) ==
    IF ~ParseInt(Strip(d, kw_months)).ok THEN Raised("ValueError")
    ELSE Raised("TypeError")

get_start_time(duration, stop) ==
    LET d == Lower(duration)
        \* the first if statement; start is unbound when it does not fire
        first == IF Contains(d, kw_minutes)
                 THEN DeltaBranch(d, stop, kw_minutes, 1)
                 ELSE Raised("UnboundLocalError")
    IN  IF Contains(d, kw_minutes) /\ first.raised /= "" THEN first
        ELSE IF Contains(d, kw_hours) THEN DeltaBranch(d, stop, kw_hours, MinutesPerHour)
        ELSE IF Contains(d, kw_days) THEN DeltaBranch(d, stop, kw_days, MinutesPerDay)
        ELSE IF Contains(d, kw_months) THEN MonthsBranch(d)
        ELSE first

(***************************************************************************)
(* Python operations the paginated queries apply to decoded responses      *)
(***************************************************************************)
\* "_more_" in str(v): the marker text shows in the printed form of v when
\* it is part of a string, of a dict key or of a dict value inside v.
RECURSIVE StrContainsMore(_)
StrContainsMore(v) ==
    CASE v.kind = "str" -> \E i \in 1..Len(v.chars) : v.chars[i] = "_more_"
      [] v.kind = "list" -> \E i \in 1..Len(v.items) : StrContainsMore(v.items[i])
      [] v.kind = "dict" ->
            \E i \in 1..Len(v.keys) :
                \/ \E j \in 1..Len(v.keys[i]) : v.keys[i][j] = "_more_"
                \/ StrContainsMore(v.vals[i])
      [] OTHER -> FALSE

\* lst.extend(v): a list gives its items, a str its pieces, a dict its
\* keys, b'' (the only bytes rest_request returns) nothing; None and
\* numbers are not iterable: TypeError.
Extend(lst, v) ==
    CASE v.kind = "list" -> [ok |-> TRUE, items |-> lst \o v.items]
      [] v.kind = "str" ->
            [ok |-> TRUE, items |-> lst \o [i \in 1..Len(v.chars) |-> PyStr(<<v.chars[i]>>)]]
      [] v.kind = "dict" ->
            [ok |-> TRUE, items |-> lst \o [i \in 1..Len(v.keys) |-> PyStr(v.keys[i])]]
      [] v.kind = "bytes" -> [ok |-> TRUE, items |-> lst]
      [] OTHER -> [ok |-> FALSE, items |-> lst]

DigitChunk(d) ==
    CASE d = 0 -> "0" [] d = 1 -> "1" [] d = 2 -> "2" [] d = 3 -> "3" [] d = 4 -> "4"
      [] d = 5 -> "5" [] d = 6 -> "6" [] d = 7 -> "7" [] d = 8 -> "8" [] d = 9 -> "9"

\* str(n) of a non-negative int
RECURSIVE IntChunks(_)
IntChunks(n) ==
    IF n < 10 THEN <<DigitChunk(n)>> ELSE Append(IntChunks(n \div 10), DigitChunk(n % 10))

\* str(v) inside an f-string, for the values an account id takes
StrOf(v) ==
    CASE v.kind = "int" -> IntChunks(v.n)
      [] v.kind = "None" -> <<"None">>
      [] v.kind = "str" -> v.chars
      [] OTHER -> <<"?">>

(***************************************************************************)
(* The Gerrit server: the answers it may give to a request                 *)
(***************************************************************************)
\* The JSON text of a value, as the server writes it.
RECURSIVE Encode(_)
RECURSIVE EncodeItems(_, _)
RECURSIVE EncodeMembers(_, _)
EncodeItems(xs, i) ==
    IF i > Len(xs) THEN <<>>
    ELSE (IF i > 1 THEN <<",">> ELSE <<>>) \o Encode(xs[i]) \o EncodeItems(xs, i + 1)

EncodeMembers(d, i) ==
    IF i > Len(d.keys) THEN <<>>
    ELSE (IF i > 1 THEN <<",">> ELSE <<>>) \o <<"\"">> \o d.keys[i] \o <<"\"", ":">>
         \o Encode(d.vals[i]) \o EncodeMembers(d, i + 1)

Encode(v) ==
    CASE v.kind = "None" -> <<"null">>
      [] v.kind = "bool" -> IF v.b THEN <<"true">> ELSE <<"false">>
      [] v.kind = "int" -> IntChunks(v.n)
      [] v.kind = "str" -> <<"\"">> \o v.chars \o <<"\"">>
      [] v.kind = "list" -> <<"[">> \o EncodeItems(v.items, 1) \o <<"]">>
      [] v.kind = "dict" -> <<"{">> \o EncodeMembers(v, 1) \o <<"}">>

\* A successful answer: status 200, the magic prefix, the JSON text.
Ok200(v) == Wire("", 200, gerrit_magic_json_prefix \o Encode(v))

AccountRef(a) == PyDict(<< <<"_account_id">> >>, << PyInt(a) >>)
Change(num, a) == PyDict(<< <<"_number">>, <<"owner">> >>, << PyInt(num), AccountRef(a) >>)
WithSubmitter(c, a) == DictSet(c, <<"submitter">>, AccountRef(a))
WithMoreChanges(c, b) == DictSet(c, <<"_more_", "changes">>, PyBool(b))
WithSubject(c, text) == DictSet(c, <<"subject">>, PyStr(text))

NameOf(a) == PyStr(<< CASE a = 1 -> "alice" [] a = 2 -> "bob" [] OTHER -> "carol" >>)
AccountDetail(a) ==
    PyDict(<< <<"_account_id">>, <<"name">> >>, << PyInt(a), NameOf(a) >>)

\* Pages of changes: two records with the marker on the last one; a final
\* page; an empty page; a page whose marker field is false; a page with
\* the marker text inside a subject.
ChangePages ==
    { PyList(<< Change(1, 1), WithMoreChanges(WithSubmitter(Change(2, 2), 1), TRUE) >>),
      PyList(<< WithSubmitter(Change(3, 1), 2) >>),
      PyList(<<>>),
      PyList(<< WithMoreChanges(Change(4, 2), FALSE) >>),
      PyList(<< WithSubject(Change(5, 1), << "fix ", "_more_", " typo" >>) >>) }

AccountPages ==
    { PyList(<< DictSet(AccountRef(1), <<"_more_", "accounts">>, PyBool(TRUE)) >>),
      PyList(<< AccountRef(2), AccountRef(3) >>),
      PyList(<<>>) }

\* Answers that are no page: the connection fails; the server refuses
\* with plain text; the body breaks off in the middle of a record.
FailureWires ==
    { Wire("ConnectionError", 0, <<>>),
      Wire("", 404, << "Not found" >>),
      Wire("", 200, gerrit_magic_json_prefix
                    \o << "[", "{", "\"", "_more_", "changes", "\"", ":", "true" >>) }

\* Answers to an account-detail request for the id written in the URL: the
\* detail, a mapping without a name, or a failure.
DetailWires(idChunk) ==
    (IF idChunk \in Digits THEN {Ok200(AccountDetail(DigitVal(idChunk)))} ELSE {})
    \cup { Ok200(PyDict(<<>>, <<>>)),
           Wire("ConnectionError", 0, <<>>),
           Wire("", 404, << "Not found" >>) }

gerrit_url == "https://gerrit"
GET_ALL_ACTIVE_USERS_URI == "/accounts/?q=is:active"
GET_COMMITS_USING_AFTER == "/changes/?q=after:"

\* The answers the server may give to the request for url.
WiresFor(url) ==
    IF url[2] = GET_COMMITS_USING_AFTER THEN {Ok200(pg) : pg \in ChangePages} \cup FailureWires
    ELSE IF url[2] = GET_ALL_ACTIVE_USERS_URI THEN {Ok200(pg) : pg \in AccountPages} \cup FailureWires
    ELSE DetailWires(url[3])

(***************************************************************************)
(* State                                                                   *)
(***************************************************************************)
VARIABLES
    pc,               \* where the paginated query stands
    op,               \* "commits": get_commit_details_in_given_period,
                      \* "accounts": get_active_user_accounts
    error,            \* the exception that ended the query, "" if none
    response,         \* the page no_limit_mocker was last given
    all_list,         \* all_commits_list / all_users_list
    mocker_response,  \* the list no_limit_mocker accumulates
    def_limit,        \* def_limit of the innermost no_limit_mocker call
    depth,            \* no_limit_mocker calls on the stack
    idx,              \* position of the for loop in all_list (from 1)
    all_users_details,
    log,              \* every request issued, with its decoded response
    cpc, wire, rest, output,        \* one rest_request + decode_response call
    spc, duration, stop, start      \* one get_start_time call

queryVars == << pc, op, error, response, all_list, mocker_response, def_limit,
                depth, idx, all_users_details, log >>
callVars == << cpc, wire, rest, output >>
startVars == << spc, duration, stop, start >>
vars == << queryVars, callVars, startVars >>

\* The deepest stack of no_limit_mocker calls the interpreter allows
\* (sys.getrecursionlimit(), scaled down).
RecursionLimit == 3

PageSize == 500

\* The url_to_be_used argument each query hands to no_limit_mocker.
url_to_be_used ==
    IF op = "commits"
    THEN << gerrit_url, GET_COMMITS_USING_AFTER, "\"", "start", "\"" >>
    ELSE << gerrit_url, GET_ALL_ACTIVE_USERS_URI >>

first_url == url_to_be_used \o << "&S=0" >>
\* new_url with the offset of the first continuation request in every request.
new_url_SameOffset(limit) ==
    url_to_be_used \o << "&S=" >> \o IntChunks(PageSize) \o << "&n=500" >>
new_url(limit) == url_to_be_used \o << "&S=" >> \o IntChunks(limit) \o << "&n=500" >>
detail_url(id) == << gerrit_url, "/accounts/" >> \o StrOf(id) \o << "/detail" >>

\* self.decode_response(self.rest_engine.rest_request(url)) when the
\* request meets w.
Fetch(w) ==
    LET r == rest_request(w)
    IN  [raised |-> r.raised, value |-> decode_response(r)]

Logged(url, f) == Append(log, [url |-> url, resp |-> f.value])

IdleCall == cpc = "idle" /\ wire = Wire("", 0, <<>>) /\ rest = PyNone /\ output = PyNone
IdleStart == spc = "idle" /\ duration = <<>> /\ stop = 0 /\ start = Raised("not called")
IdleQuery ==
    /\ pc = "idle" /\ op = "commits" /\ error = "" /\ response = PyNone
    /\ all_list = <<>> /\ mocker_response = <<>> /\ def_limit = 0 /\ depth = 0
    /\ idx = 0 /\ all_users_details = <<>> /\ log = <<>>

Init ==
    /\ pc = "first"
    /\ op \in {"commits", "accounts"}
    /\ error = "" /\ response = PyNone
    /\ all_list = <<>> /\ mocker_response = <<>> /\ def_limit = 0 /\ depth = 0
    /\ idx = 0 /\ all_users_details = <<>> /\ log = <<>>
    /\ IdleCall /\ IdleStart

\* The query ends with exception e.
Abort(e) ==
    /\ pc' = "raised"
    /\ error' = e

\* The for loop that follows the merge: over commits (owner first), over
\* users, or nothing left to do.
LoopEntry(lst) ==
    IF lst = <<>> THEN "done" ELSE IF op = "commits" THEN "owner" ELSE "detail"

(***************************************************************************)
(* get_commit_details_in_given_period and get_active_user_accounts, one    *)
(* action per request issued                                               *)
(***************************************************************************)
\* The first page: requested with &S=0, decoded, put into the accumulator;
\* then no_limit_mocker is called with it.
FirstRequest ==
    /\ pc = "first"
    /\ \E w \in WiresFor(first_url) :
       \E f \in {Fetch(w)} : \E ext \in {Extend(all_list, f.value)} :
           /\ log' = Logged(first_url, f)
           /\ IF f.raised /= "" THEN
                  Abort(f.raised) /\ UNCHANGED << response, all_list, depth >>
              ELSE IF ~ext.ok THEN
                  Abort("TypeError") /\ response' = f.value /\ UNCHANGED << all_list, depth >>
              ELSE
                  /\ pc' = "mock" /\ error' = error
                  /\ response' = f.value
                  /\ all_list' = ext.items
                  /\ depth' = 1
    /\ UNCHANGED << op, mocker_response, def_limit, idx, all_users_details >>
    /\ UNCHANGED << callVars, startVars >>

\* no_limit_mocker, the branch taken when "_more_" is in str(response):
\* fetch the next page, accumulate it, call no_limit_mocker with it.
MockerContinue ==
    /\ pc = "mock"
    /\ StrContainsMore(response)
    /\ \E w \in WiresFor(new_url(def_limit + PageSize)) :
       \E f \in {Fetch(w)} : \E ext \in {Extend(mocker_response, f.value)} :
       LET limit == def_limit + PageSize
       IN  /\ def_limit' = limit
           /\ log' = Logged(new_url(limit), f)
           /\ IF f.raised /= "" THEN
                  Abort(f.raised) /\ UNCHANGED << response, mocker_response, depth >>
              ELSE IF ~ext.ok THEN
                  Abort("TypeError") /\ UNCHANGED << response, mocker_response, depth >>
              ELSE IF depth + 1 > RecursionLimit THEN
                  /\ Abort("RecursionError")
                  /\ mocker_response' = ext.items
                  /\ UNCHANGED << response, depth >>
              ELSE
                  /\ pc' = "mock" /\ error' = error
                  /\ response' = f.value
                  /\ mocker_response' = ext.items
                  /\ depth' = depth + 1
    /\ UNCHANGED << op, all_list, idx, all_users_details >>
    /\ UNCHANGED << callVars, startVars >>

\* What the caller makes of the list no_limit_mocker returned.
Merged(lst, mocked) ==
    IF op = "commits"
    THEN (IF mocked /= <<>> THEN lst \o mocked ELSE lst)
    ELSE (IF lst /= <<>> THEN lst \o mocked ELSE lst)

\* no_limit_mocker, the else branch: fetch the next page, accumulate it,
\* return through every call on the stack; the caller merges.
MockerLast ==
    /\ pc = "mock"
    /\ ~StrContainsMore(response)
    /\ \E w \in WiresFor(new_url(def_limit + PageSize)) :
       \E f \in {Fetch(w)} : \E ext \in {Extend(mocker_response, f.value)} :
       LET limit == def_limit + PageSize
       IN  /\ def_limit' = limit
           /\ log' = Logged(new_url(limit), f)
           /\ IF f.raised /= "" THEN
                  Abort(f.raised) /\ UNCHANGED << mocker_response, all_list, depth, idx >>
              ELSE IF ~ext.ok THEN
                  Abort("TypeError") /\ UNCHANGED << mocker_response, all_list, depth, idx >>
              ELSE
                  /\ mocker_response' = ext.items
                  /\ all_list' = Merged(all_list, ext.items)
                  /\ depth' = 0
                  /\ idx' = 1
                  /\ pc' = LoopEntry(all_list') /\ error' = error
    /\ UNCHANGED << op, response, all_users_details >>
    /\ UNCHANGED << callVars, startVars >>

each == all_list[idx]

Resolved_AlwaysOwner(rec, field, detail) ==
    DictSet(rec, <<"owner">>, DictGet(detail, <<"name">>))

\* each_commit[field] = detail.get("name")
Resolved(rec, field, detail) == DictSet(rec, field, DictGet(detail, <<"name">>))

\* The loop moves on from the record at idx.
NextRecord(again) ==
    /\ idx' = idx + 1
    /\ pc' = IF idx + 1 > Len(all_list) THEN "done" ELSE again
    /\ error' = error

\* each_commit["owner"] = <lookup>.get("name"), then the submitter test.
ResolveOwner ==
    /\ pc = "owner"
    /\ each.kind = "dict"
    /\ DictGet(each, <<"owner">>).kind = "dict"
    /\ \E w \in WiresFor(detail_url(DictGet(DictGet(each, <<"owner">>), <<"_account_id">>))) :
       \E f \in {Fetch(w)} :
       LET id == DictGet(DictGet(each, <<"owner">>), <<"_account_id">>)
           resolved == Resolved(each, <<"owner">>, f.value)
       IN  /\ log' = Logged(detail_url(id), f)
           /\ IF f.raised /= "" THEN
                  Abort(f.raised) /\ UNCHANGED << all_list, idx >>
              ELSE IF f.value.kind /= "dict" THEN
                  Abort("AttributeError") /\ UNCHANGED << all_list, idx >>
              ELSE
                  /\ all_list' = [all_list EXCEPT ![idx] = resolved]
                  /\ IF Truthy(DictGet(resolved, <<"submitter">>))
                     THEN pc' = "submitter" /\ error' = error /\ idx' = idx
                     ELSE NextRecord("owner")
    /\ UNCHANGED << op, response, mocker_response, def_limit, depth, all_users_details >>
    /\ UNCHANGED << callVars, startVars >>

\* each_commit["submitter"] = <lookup>.get("name")
ResolveSubmitter ==
    /\ pc = "submitter"
    /\ DictGet(each, <<"submitter">>).kind = "dict"
    /\ \E w \in WiresFor(detail_url(DictGet(DictGet(each, <<"submitter">>), <<"_account_id">>))) :
       \E f \in {Fetch(w)} :
       LET id == DictGet(DictGet(each, <<"submitter">>), <<"_account_id">>)
           resolved == Resolved(each, <<"submitter">>, f.value)
       IN  /\ log' = Logged(detail_url(id), f)
           /\ IF f.raised /= "" THEN
                  Abort(f.raised) /\ UNCHANGED << all_list, idx >>
              ELSE IF f.value.kind /= "dict" THEN
                  Abort("AttributeError") /\ UNCHANGED << all_list, idx >>
              ELSE
                  /\ all_list' = [all_list EXCEPT ![idx] = resolved]
                  /\ NextRecord("owner")
    /\ UNCHANGED << op, response, mocker_response, def_limit, depth, all_users_details >>
    /\ UNCHANGED << callVars, startVars >>

\* all_users_details.append(<lookup>)
DetailLookup ==
    /\ pc = "detail"
    /\ each.kind = "dict"
    /\ \E w \in WiresFor(detail_url(DictGet(each, <<"_account_id">>))) :
       \E f \in {Fetch(w)} :
       LET id == DictGet(each, <<"_account_id">>)
       IN  /\ log' = Logged(detail_url(id), f)
           /\ IF f.raised /= "" THEN
                  Abort(f.raised) /\ UNCHANGED << all_users_details, idx >>
              ELSE
                  /\ all_users_details' = Append(all_users_details, f.value)
                  /\ NextRecord("detail")
    /\ UNCHANGED << op, response, all_list, mocker_response, def_limit, depth >>
    /\ UNCHANGED << callVars, startVars >>

\* The record at idx, or its owner or submitter, is no mapping: .get is an
\* AttributeError, raised before any request is made.
BadRecord ==
    /\ \/ pc \in {"owner", "detail"} /\ each.kind /= "dict"
       \/ pc = "owner" /\ each.kind = "dict" /\ DictGet(each, <<"owner">>).kind /= "dict"
       \/ pc = "submitter" /\ DictGet(each, <<"submitter">>).kind /= "dict"
    /\ Abort("AttributeError")
    /\ UNCHANGED << op, response, all_list, mocker_response, def_limit, depth, idx,
                    all_users_details, log >>
    /\ UNCHANGED << callVars, startVars >>

Next ==
    \/ FirstRequest
    \/ MockerContinue
    \/ MockerLast
    \/ ResolveOwner
    \/ ResolveSubmitter
    \/ DetailLookup
    \/ BadRecord

Spec == Init /\ [][Next]_vars

(***************************************************************************)
(* One call of rest_request followed by decode_response                    *)
(***************************************************************************)
\* Longest body tail, after the prefix or what stands for it.
MaxBody == 3

SeqsUpTo(S, n) == UNION {[1..k -> S] : k \in 0..n}

\* The exceptions session.request raises.
TransportFailures ==
    { "InvalidURL", "SSLError", "ConnectionError", "InvalidHeader", "TooManyRedirects",
      "ConnectTimeout", "ReadTimeout", "MissingSchema", "ChunkedEncodingError", "TypeError" }

\* How a body may begin: the magic prefix, each part of it, the prefix
\* with its quote missing, the prefix after a line break.
BodyHeads ==
    {SubSeq(gerrit_magic_json_prefix, 1, k) : k \in 0..Len(gerrit_magic_json_prefix)}
    \cup { << ")", "]", "}", "\n" >>, << "\n" >> \o gerrit_magic_json_prefix }

BodyTails == SeqsUpTo({"[", "]", ",", "1", "0", "\n"}, MaxBody)

CallWires ==
    {Wire(e, 0, <<>>) : e \in TransportFailures}
    \cup {Wire("", st, h \o t) : st \in {200, 404}, h \in BodyHeads, t \in BodyTails}
    \cup {Ok200(pg) : pg \in ChangePages}
    \cup FailureWires

CallInit ==
    /\ cpc = "request"
    /\ wire \in CallWires
    /\ rest = PyNone /\ output = PyNone
    /\ IdleQuery /\ IdleStart

\* rest_request runs: it returns its tuple, or an exception leaves it.
RestRequest ==
    /\ cpc = "request"
    /\ rest' = rest_request(wire)
    /\ cpc' = IF rest'.raised /= "" THEN "raised" ELSE "returned"
    /\ UNCHANGED << wire, output, queryVars, startVars >>

\* decode_response runs on the tuple.
DecodeResponse ==
    /\ cpc = "returned"
    /\ output' = decode_response(rest)
    /\ cpc' = "decoded"
    /\ UNCHANGED << wire, rest, queryVars, startVars >>

CallNext == RestRequest \/ DecodeResponse

SpecCall == CallInit /\ [][CallNext]_vars

(***************************************************************************)
(* One call of get_start_time                                              *)
(***************************************************************************)
\* Most digits in the number a duration starts with.
MaxDigits == 3

UpperChar(c) ==
    CASE c = "a" -> "A" [] c = "d" -> "D" [] c = "e" -> "E" [] c = "h" -> "H"
      [] c = "i" -> "I" [] c = "k" -> "K" [] c = "m" -> "M" [] c = "n" -> "N"
      [] c = "o" -> "O" [] c = "r" -> "R" [] c = "s" -> "S" [] c = "t" -> "T"
      [] c = "u" -> "U" [] c = "w" -> "W" [] c = "y" -> "Y"
      [] OTHER -> c

\* A unit keyword as a user may write it: lower case, capitalised, upper
\* case, alternating.
Spellings(kw) ==
    { kw,
      [i \in 1..Len(kw) |-> IF i = 1 THEN UpperChar(kw[i]) ELSE kw[i]],
      [i \in 1..Len(kw) |-> UpperChar(kw[i])],
      [i \in 1..Len(kw) |-> IF i % 2 = 0 THEN UpperChar(kw[i]) ELSE kw[i]] }

kw_weeks == << "w", "e", "e", "k", "s" >>

DurationNumbers == SeqsUpTo({"0", "1", "2", "4"}, MaxDigits)

Durations ==
    { ds \o sp : ds \in DurationNumbers,
                 sp \in UNION {Spellings(kw) : kw \in {kw_minutes, kw_hours, kw_days,
                                                        kw_months, kw_weeks}} }

\* Reference instants, in minutes since datetime.min: half an hour and two
\* days after it, and an instant of the year 2021.
Stops == {30, 2880, 1062000000}

StartInit ==
    /\ spc = "call"
    /\ duration \in Durations
    /\ stop \in Stops
    /\ start = Raised("not called")
    /\ IdleQuery /\ IdleCall

GetStartTime ==
    /\ spc = "call"
    /\ start' = get_start_time(duration, stop)
    /\ spc' = "done"
    /\ UNCHANGED << duration, stop, queryVars, callVars >>

StartNext == GetStartTime

SpecStart == StartInit /\ [][StartNext]_vars

(***************************************************************************)
(* What the claims speak of                                                *)
(***************************************************************************)
IsPageRequest(e) == e.url[2] \in {GET_COMMITS_USING_AFTER, GET_ALL_ACTIVE_USERS_URI}

\* The decoded pages in the order received, and the decoded lookups.
Pages == SelectSeq(log, IsPageRequest)
Lookups == SelectSeq(log, LAMBDA e : ~IsPageRequest(e))

\* A page carries a continuation marker: one of its records has a field
\* named _more_... whose value is true.
HasMarker(page) ==
    /\ page.kind = "list"
    /\ \E i \in 1..Len(page.items) :
          /\ page.items[i].kind = "dict"
          /\ \E k \in 1..Len(page.items[i].keys) :
                /\ page.items[i].keys[k][1] = "_more_"
                /\ page.items[i].vals[k] = PyBool(TRUE)

\* The records of the first n pages, in page order.
RECURSIVE ConcatPages(_, _)
ConcatPages(pgs, n) ==
    IF n = 0 THEN <<>> ELSE ConcatPages(pgs, n - 1) \o pgs[n].resp.items

\* The pages are fetched and merged, and no lookup has been made yet.
PagingDone == pc \in {"owner", "detail", "done"} /\ Lookups = <<>>

\* C1: when pages 1..N-1 carry a continuation marker and page N is the
\* first that carries none, the merged list (before any lookup) holds
\* exactly the records of pages 1..N, in page order and then within-page
\* order, whatever the server answers to a further request.
C1_MergedIsExactlyThePages ==
    \A n \in 1..Len(Pages) :
        ( /\ PagingDone
          /\ \A i \in 1..n : Pages[i].resp.kind = "list"
          /\ \A i \in 1..(n - 1) : HasMarker(Pages[i].resp)
          /\ ~HasMarker(Pages[n].resp) )
        => all_list = ConcatPages(Pages, n)

\* C2: no_limit_mocker requests a next page only when the page it was just
\* given carries a continuation marker: every page after the first was
\* requested on a page with a marker.
C2_RequestsOnlyOnContinuation ==
    \A i \in 2..Len(Pages) : HasMarker(Pages[i - 1].resp)

\* C3: against a server whose every page signals continuation,
\* no_limit_mocker stops at a bound and returns what it accumulated: it
\* does not end in an exception.
C3_StopsAtSafetyBound ==
    (\A i \in 1..Len(Pages) : HasMarker(Pages[i].resp)) => pc /= "raised"

\* C4: a first page that is empty or that decoded to something other than
\* a list puts nothing into the accumulator and raises nothing.
C4_FirstPageNoOp ==
    ( /\ Len(log) = 1
      /\ \/ log[1].resp.kind /= "list"
         \/ log[1].resp.items = <<>> )
    => (pc /= "raised" /\ all_list = <<>>)

\* C5: when an account lookup made while resolving references decodes to
\* None or to raw text, get_commit_details_in_given_period does not abort.
C5_FailedLookupDoesNotAbort ==
    ( /\ op = "commits"
      /\ Lookups /= <<>>
      /\ Lookups[Len(Lookups)].resp.kind \in {"None", "str"} )
    => pc /= "raised"

\* C10: a page is treated as signalling continuation exactly when one of
\* its records carries a marker field whose value is true; any other page
\* is treated as the final one: after the fetch that follows it,
\* no_limit_mocker does not go on to another.
C10_ContinuationIsATrueMarkerField ==
    [][ pc = "mock" =>
          /\ ~HasMarker(response) => pc' /= "mock"
          /\ HasMarker(response) => pc' \in {"mock", "raised"} ]_vars

\* The account references of a record, in the order they are resolved.
RefIds(rec) ==
    << DictGet(DictGet(rec, <<"owner">>), <<"_account_id">>) >>
    \o (IF DictHas(rec, <<"submitter">>)
        THEN << DictGet(DictGet(rec, <<"submitter">>), <<"_account_id">>) >>
        ELSE <<>>)

\* The references of the first n records.
RECURSIVE AllRefs(_, _)
AllRefs(recs, n) == IF n = 0 THEN <<>> ELSE AllRefs(recs, n - 1) \o RefIds(recs[n])

LookupName(k) == DictGet(Lookups[k].resp, <<"name">>)

\* Record i of recs with its references replaced by the names the lookups
\* made for them returned.
WithNames(recs, i) ==
    LET at == Len(AllRefs(recs, i - 1)) + 1
        owned == DictSet(recs[i], <<"owner">>, LookupName(at))
    IN  IF DictHas(recs[i], <<"submitter">>)
        THEN DictSet(owned, <<"submitter">>, LookupName(at + 1))
        ELSE owned

EveryLookupSucceeded ==
    \A k \in 1..Len(Lookups) :
        Lookups[k].resp.kind = "dict" /\ DictHas(Lookups[k].resp, <<"name">>)

\* C6: when every account lookup succeeds, the records returned by
\* get_commit_details_in_given_period are the fetched records with each
\* owner reference replaced by the name its lookup returned, and each
\* submitter reference likewise; a record without a submitter still has
\* none; one lookup is issued per reference, in record order with owner
\* before submitter, and all of them after the last page fetch.
C6_ReferencesResolvedInOrder ==
    (pc = "done" /\ op = "commits" /\ EveryLookupSucceeded) =>
        LET fetched == ConcatPages(Pages, Len(Pages))
            refs == AllRefs(fetched, Len(fetched))
        IN  /\ log = Pages \o Lookups
            /\ Len(Lookups) = Len(refs)
            /\ \A k \in 1..Len(refs) : Lookups[k].url = detail_url(refs[k])
            /\ Len(all_list) = Len(fetched)
            /\ \A i \in 1..Len(fetched) :
                  /\ all_list[i] = WithNames(fetched, i)
                  /\ DictHas(all_list[i], <<"submitter">>) = DictHas(fetched[i], <<"submitter">>)

\* Three pages were fetched, and records with and without a submitter
\* were resolved.
C6_Witness ==
    /\ pc = "done" /\ op = "commits" /\ EveryLookupSucceeded
    /\ Len(Pages) >= 3
    /\ \E i \in 1..Len(all_list) : DictGet(all_list[i], <<"submitter">>) = NameOf(1)
    /\ \E i \in 1..Len(all_list) :
          /\ ~DictHas(all_list[i], <<"submitter">>)
          /\ DictGet(all_list[i], <<"owner">>) = NameOf(2)

\* The body decode_response was given, without the magic prefix.
BodyTail == SubSeq(rest.response.chars, Len(gerrit_magic_json_prefix) + 1,
                   Len(rest.response.chars))

\* The status is 200 and the body is text that starts with the prefix.
IsEnvelope ==
    /\ rest.code = PyInt(200)
    /\ rest.response.kind = "str"
    /\ StartsWith(rest.response.chars, gerrit_magic_json_prefix)

DurationNumber == SubSeq(duration, 1, DigitsEnd(duration, 1) - 1)
DurationUnit == SubSeq(duration, DigitsEnd(duration, 1), Len(duration))

\* The value of a decimal numeral, read from the left.
RECURSIVE NumeralValue(_)
NumeralValue(ds) ==
    IF ds = <<>> THEN 0
    ELSE 10 * NumeralValue(SubSeq(ds, 1, Len(ds) - 1)) + DigitVal(ds[Len(ds)])

\* The minutes in n of the unit written as DurationUnit; -1 when the unit
\* is none of Minutes, Hours, Days.
MinutesOf(n) ==
    IF DurationUnit \in Spellings(kw_minutes) THEN n
    ELSE IF DurationUnit \in Spellings(kw_hours) THEN 60 * n
    ELSE IF DurationUnit \in Spellings(kw_days) THEN 24 * 60 * n
    ELSE -1

\* get_start_time was called with "<n><unit>", unit one of Minutes, Hours,
\* Days in some letter case.
StartCase == spc = "done" /\ DurationNumber /= <<>> /\ MinutesOf(0) = 0

\* C8 as claimed: for every n, unit and stop, get_start_time returns stop
\* minus n of the unit, an instant not later than stop.
C8_StartIsStopMinusDuration ==
    StartCase =>
        /\ start = Returned(stop - MinutesOf(NumeralValue(DurationNumber)))
        /\ start.start <= stop

\* C8 as amended: get_start_time returns stop minus n of the unit, not
\* later than stop, whenever that instant is not earlier than datetime.min;
\* when it is, the call raises OverflowError.
C8_StartIsStopMinusDurationInRange ==
    StartCase =>
        LET delta == MinutesOf(NumeralValue(DurationNumber))
        IN  IF stop - delta >= 0
            THEN start = Returned(stop - delta) /\ start.start <= stop
            ELSE start = Raised("OverflowError")

\* "24Hours" before an instant of 2021 gave the instant 24 hours earlier.
C8_Witness ==
    /\ spc = "done"
    /\ duration = << "2", "4", "H", "o", "u", "r", "s" >>
    /\ stop = 1062000000
    /\ start = Returned(1062000000 - 1440)

\* C9: whatever transport failure session.request raises, rest_request
\* raises nothing and returns (None, None, None).
C9_TransportFailureReturnsNones ==
    (wire.exc \in TransportFailures /\ cpc /= "request") =>
        /\ cpc = "returned"
        /\ rest = RestResult("", PyNone, PyNone, PyNone)

\* The skip parameter of a continuation request for the base url: the
\* chunks between "&S=" and the last chunk.
SkipDigits(u) == SubSeq(u, Len(url_to_be_used) + 2, Len(u) - 1)

\* u is the base query URL followed by &S=<skip>&n=500, skip written as a
\* decimal numeral without leading zero.
IsContinuationUrl(u, skip) ==
    /\ Len(u) >= Len(url_to_be_used) + 3
    /\ SubSeq(u, 1, Len(url_to_be_used)) = url_to_be_used
    /\ u[Len(url_to_be_used) + 1] = "&S="
    /\ u[Len(u)] = "&n=500"
    /\ \A i \in 1..Len(SkipDigits(u)) : SkipDigits(u)[i] \in Digits
    /\ SkipDigits(u)[1] /= "0"
    /\ NumeralValue(SkipDigits(u)) = skip

\* C11: in any run of a paginated query the first page request is the
\* base query URL with skip 0, and the k-th request that no_limit_mocker
\* issues is the base query URL followed by &S=<500*k>&n=500: the skip
\* offsets go up by exactly the page size 500 from one request to the
\* next, none repeated or skipped, and every such request has limit 500.
C11_OffsetsAdvanceByPageSize ==
    /\ Len(Pages) >= 1 => Pages[1].url = url_to_be_used \o << "&S=0" >>
    /\ \A k \in 1..(Len(Pages) - 1) : IsContinuationUrl(Pages[k + 1].url, 500 * k)

\* A query for changes that has requested three pages: skip 0, then
\* &S=500&n=500, then &S=1000&n=500.
C11_Witness ==
    /\ op = "commits"
    /\ error = ""
    /\ Len(Pages) >= 3
    /\ Pages[3].url = << gerrit_url, GET_COMMITS_USING_AFTER, "\"", "start", "\"",
                         "&S=", "1", "0", "0", "0", "&n=500" >>

=============================================================================
